---- MODULE Spec2Model ----
(***************************************************************************)
(* A model of the browser client apps/web/app.js: the direction extractor  *)
(* (extractPan, a pure function over the characters of a description), the *)
(* analyze -> speak -> playSpatial pipeline with its shared page state and *)
(* the recorder behind the start and stop buttons; and of the relay server *)
(* listed in docs/visionai-nexus-blueprint.md.                             *)
(*                                                                         *)
(* Pan values are kept in tenths: 0.6 is 6, -0.6 is -6, 1.0 is 10.         *)
(* A text is a sequence of one-character strings.                          *)
(***************************************************************************)
EXTENDS Integers, Sequences, FiniteSets, TLC

\* ------------------------------------------------------------------ bounds

\* The longest text, counted in pieces of Pieces, that PanSpec feeds extractPan.
MaxPieces == 3

\* How many times PanSpec calls extractPan on one text.
MaxCalls == 2

\* ------------------------------------------------------- characters, texts

Digits == {"0", "1", "2", "3", "4", "8", "9"}
LowerLetters == {"o", "c", "l", "k", "s"}
UpperLetters == {"O", "C", "L", "K", "S"}

\* String.prototype.toUpperCase on the characters of the model's alphabet: the
\* regular expressions carry the i flag, under which two characters match when
\* their upper-case forms are equal.
CanonicalizeNoFlag(c) == c
Canonicalize(c) ==
    CASE c = "o" -> "O"
      [] c = "c" -> "C"
      [] c = "l" -> "L"
      [] c = "k" -> "K"
      [] c = "s" -> "S"
      [] OTHER -> c

\* \w of a regular expression: [A-Za-z0-9_].
IsWordChar(c) == c \in Digits \cup LowerLetters \cup UpperLetters \cup {"_"}

\* Whether position i of text holds a word character; a position before the
\* start or after the end of the text holds none.
IsWordAt(text, i) == i >= 1 /\ i <= Len(text) /\ IsWordChar(text[i])

\* \b just before position i (1..Len+1): exactly one side is a word character.
WordBoundary(text, i) == IsWordAt(text, i - 1) # IsWordAt(text, i)

\* The literal tail " o'clock" both expressions share.
OClock == <<" ", "o", "'", "c", "l", "o", "c", "k">>

\* (2|3|4) and (8|9|10): the alternatives of the two groups.
RightAltsBug == {<<"1">>, <<"2">>, <<"3">>, <<"4">>}
RightAlts == {<<"2">>, <<"3">>, <<"4">>}
LeftAltsBug == {<<"8">>, <<"9">>}
LeftAlts == {<<"8">>, <<"9">>, <<"1", "0">>}

\* The literal lit matches text at position i, ignoring case.
MatchLit(text, i, lit) ==
    /\ i >= 1
    /\ i + Len(lit) - 1 <= Len(text)
    /\ \A j \in 1..Len(lit) : Canonicalize(text[i + j - 1]) = Canonicalize(lit[j])

\* /\b(alts) o'clock\b/i matches text starting at position i.
MatchesAtUnanchored(text, i, alts) ==
    \E a \in alts :
        /\ MatchLit(text, i, a \o OClock)
        /\ WordBoundary(text, i + Len(a) + Len(OClock))
MatchesAt(text, i, alts) ==
    /\ WordBoundary(text, i)
    /\ \E a \in alts :
          /\ MatchLit(text, i, a \o OClock)
          /\ WordBoundary(text, i + Len(a) + Len(OClock))

\* RegExp.prototype.test: the expression matches somewhere in text.
Test(alts, text) == \E i \in 1..Len(text) : MatchesAt(text, i, alts)

RightPan == 6
LeftPan == -6
CenterPan == 0

extractPanWhole(text) ==
    IF Test(RightAlts, text) THEN 10 * RightPan
    ELSE IF Test(LeftAlts, text) THEN 10 * LeftPan
    ELSE CenterPan
extractPanLeftFirst(text) ==
    IF Test(LeftAlts, text) THEN LeftPan
    ELSE IF Test(RightAlts, text) THEN RightPan
    ELSE CenterPan
extractPan(text) ==
    IF Test(RightAlts, text) THEN RightPan
    ELSE IF Test(LeftAlts, text) THEN LeftPan
    ELSE CenterPan

\* ------------------------------------------------------------ input texts

\* The pieces the input texts are built from: clock phrases in several letter
\* cases, a bare digit and a bare " o'clock" (so that 12 o'clock, 110 o'clock
\* and 1 o'clock arise), a letter and a space.
P2 == <<"2">> \o OClock
P3 == <<"3", " ", "O", "'", "C", "L", "O", "C", "K">>
P4 == <<"4", " ", "o", "'", "C", "l", "o", "c", "k">>
P8 == <<"8">> \o OClock
P9 == <<"9", " ", "O", "'", "c", "l", "o", "c", "k">>
P10 == <<"1", "0">> \o OClock
Pieces == {P2, P3, P4, P8, P9, P10, <<"1">>, OClock, <<"s">>, <<" ">>}

RECURSIVE TextsOf(_)
TextsOf(n) ==
    IF n = 0 THEN {<<>>}
    ELSE LET shorter == TextsOf(n - 1)
         IN  shorter \cup {t \o p : t \in shorter, p \in Pieces}

Texts == TextsOf(MaxPieces)

\* ------------------------------------------------------------------ state

\* How many times analyzeScene gets past its guard in one behaviour.
MaxRuns == 2

Runs == 1..MaxRuns

\* null / "" of the page's variables.
Null == ""

\* A piece of fixed user-interface text, as a text of one element, so that it
\* can stand where a description (a sequence of characters) can.
Lit(s) == <<s>>

\* canvasEl.toDataURL(...).split(",")[1] of a frame of a live camera.
Frame == "frame"

\* The audio of a completed recording.
Audio == "audio"

\* The descriptions /api/analyze answers with: to the right, to the left,
\* and "12 o'clock" (straight ahead, as in the relay's mock description).
Descriptions == {P3, P9, <<"1">> \o P2}

\* What can come back from POST /api/analyze: the request fails or its body
\* is no JSON object ("reject"), or a JSON object with a description (empty
\* when the provider returned no content) or with an error message.
AnalyzeOutcomes ==
    {[kind |-> "reject", description |-> <<>>, error |-> <<>>]}
    \cup {[kind |-> "json", description |-> d, error |-> <<>>] :
              d \in Descriptions \cup {<<>>}}
    \cup {[kind |-> "json", description |-> <<>>, error |-> Lit("provider error")]}

\* What can come back from POST /api/tts: the request fails or its body is no
\* JSON ("reject"), or a JSON object whose audioBase64 is absent (an error
\* payload), empty (the mock payload), no base64 text, base64 of bytes that
\* are no audio, or base64 of audio.
Payloads == {"absent", "empty", "badbase64", "undecodable", "audio"}
TtsOutcomes == {"reject"} \cup Payloads

VARIABLES
    panText,            \* the argument of the extractPan calls under study
    panCalls,           \* the outcomes of the calls made so far, oldest first
    camera,             \* initCamera: "pending", "live" (videoWidth > 0), "denied"
    lastAudioBase64,    \* let lastAudioBase64
    lastImageBase64,    \* let lastImageBase64
    analyzeBtnDisabled, \* analyzeBtn.disabled
    statusEl,           \* statusEl.textContent
    descriptionEl,      \* descriptionEl.textContent
    audioEl,            \* audioEl: its src and whether it is playing
    runs,               \* the calls of analyzeScene that got past the guard
    sink,               \* the runs whose playback reached the audio sink, in order
    console,            \* console.error: the runs that logged an error, in order
    openAiKey,          \* relay: const openAiKey = process.env.OPENAI_API_KEY
    requests,           \* relay: the HTTP requests received and how far each got
    crashed,            \* relay: the process died of an unhandled rejection
    startBtnDisabled,   \* startBtn.disabled
    stopBtnDisabled,    \* stopBtn.disabled
    transcriptEl,       \* transcriptEl.textContent
    mediaRecorder,      \* let mediaRecorder: 0 (undefined) or the recording it is of
    audioChunks,        \* let audioChunks: for each chunk, the recording it is of
    recordings,         \* the calls of startRecording and how far each got
    staticUrl,          \* relay: req.url of the requests serveStatic is called for
    staticCalls         \* relay: what each call of serveStatic did, oldest first

pageVars == <<camera, lastAudioBase64, lastImageBase64, analyzeBtnDisabled,
              statusEl, descriptionEl, audioEl, runs, sink, console>>
panVars == <<panText, panCalls>>
relayVars == <<openAiKey, requests, crashed>>
staticVars == <<staticUrl, staticCalls>>
recVars == <<startBtnDisabled, stopBtnDisabled, transcriptEl, mediaRecorder,
             audioChunks, recordings>>
vars == <<panText, panCalls, camera, lastAudioBase64, lastImageBase64,
          analyzeBtnDisabled, statusEl, descriptionEl, audioEl, runs, sink, console,
          openAiKey, requests, crashed,
          startBtnDisabled, stopBtnDisabled, transcriptEl, mediaRecorder,
          audioChunks, recordings, staticUrl, staticCalls>>

\* A run of analyzeScene that has not begun.
IdleRun ==
    [pc |-> "idle",         \* "analyze", "tts", "decode": the await it is at; "done"
     text |-> <<>>,         \* speakDescription's and playSpatial's parameter text
     payload |-> "none",    \* data.audioBase64 of the /api/tts response
     psCalled |-> FALSE,    \* playSpatial was called
     psSeq |-> 0,           \* the how-manieth call of playSpatial it made
     psResult |-> "none",   \* playSpatial's promise: "pending", "resolved", "rejected"
     psValue |-> "none",    \* the value playSpatial's promise resolved with
     decSeq |-> 0,          \* the how-manieth decodeAudioData to settle was its own
     caught |-> "none",     \* the error speakDescription's catch received
     graph |-> <<>>,        \* the calls made on the run's audio graph, in order
     sound |-> "none",      \* the run's source: "playing", "ended"
     playbacks |-> 0]       \* how many playbacks the run initiated

\* The calls of extractPan outside the pipeline: the function reads its
\* parameter and two regular expressions it makes anew on every call.
CallOutcomeReadsPage(text) ==
    [threw |-> FALSE,
     value |-> extractPan(IF descriptionEl # <<>> THEN descriptionEl ELSE text)]
CallOutcome(text) == [threw |-> FALSE, value |-> extractPan(text)]

\* ---------------------------------------------------------- the recorder

\* How many times the start button is clicked in one behaviour.
MaxRecs == 2

Recs == 1..MaxRecs

\* A call of startRecording that has not been made.
IdleRecording ==
    [pc |-> "idle",   \* "asking": at await getUserMedia; "denied"; "recording":
                      \* its MediaRecorder is in state recording; "stopping":
                      \* stop() was called, the recorder is inactive, its events
                      \* are queued; "flushed": dataavailable has fired;
                      \* "converting": onstop is at await blobToBase64;
                      \* "transcribing": at the awaits of transcribeAudio; "done"
     produced |-> <<>>,  \* the chunks its own recorder handed to ondataavailable
     blob |-> <<>>]   \* new Blob(audioChunks): the chunks onstop found

\* The recorder at load: the start button can be clicked, nothing recorded.
RecIdle ==
    /\ startBtnDisabled = FALSE
    /\ stopBtnDisabled = TRUE
    /\ transcriptEl = Null
    /\ mediaRecorder = 0
    /\ audioChunks = <<>>
    /\ recordings = [s \in Recs |-> IdleRecording]

\* ------------------------------------------------------------- the relay

\* How many HTTP requests the relay receives in one behaviour.
MaxReqs == 2

Reqs == 1..MaxReqs

\* The three POST endpoints and the provider each one calls.
Endpoints == {"/api/transcribe", "/api/analyze", "/api/tts"}

\* The request bodies: none at all, text that is no JSON, the JSON value
\* null, and a JSON object whose required field (audioBase64, imageBase64,
\* text) is missing, the empty string, or a value.
Bodies == {"none", "malformed", "null", "missing", "empty", "value"}

\* The requests: GET /api/health, a POST on an endpoint with a body, and
\* two that match no route (a GET on an endpoint, an unknown /api/ path).
RequestInputs ==
    {[method |-> "GET", url |-> "/api/health", body |-> "none"],
     [method |-> "GET", url |-> "/api/tts", body |-> "none"],
     [method |-> "POST", url |-> "/api/unknown", body |-> "none"]}
    \cup {[method |-> "POST", url |-> u, body |-> b] : u \in Endpoints, b \in Bodies}

\* What a call of the provider can end in: the fetch rejects (no network),
\* a response that is not ok with its status, an ok response whose body
\* does not parse, or an ok response.
ProviderOutcomes ==
    {[kind |-> "network", status |-> 0],
     [kind |-> "notok", status |-> 401],
     [kind |-> "notok", status |-> 429],
     [kind |-> "badjson", status |-> 200],
     [kind |-> "ok", status |-> 200]}

\* A request not yet received.
FreeRequest ==
    [pc |-> "free",        \* "reading", "calling": the await it is at; "answered";
                           \* "lost": its handler's promise rejected, no answer sent
     input |-> [method |-> "GET", url |-> "/api/health", body |-> "none"],
     status |-> 0,         \* the status of the answer
     reply |-> "none",     \* the payload: "ok", "mock", "result", "error"
     calls |-> 0,          \* the calls of the provider made for it
     failure |-> "none"]   \* what went wrong: "malformed", "null", "network", "badjson"

\* The relay before any request; its key is no part of the page's models.
RelayIdle ==
    /\ openAiKey = Null
    /\ requests = [q \in Reqs |-> FreeRequest]
    /\ crashed = FALSE

\* sendJson(res, status, payload).
SendJson(rq, status, reply) ==
    [rq EXCEPT !.pc = "answered", !.status = status, !.reply = reply]

\* if (!audioBase64) / (!imageBase64) / (!text): the field is undefined or "".
FieldMissingBug(b) == b \in {"none", "missing"}
FieldMissing(b) == b \in {"none", "missing", "empty"}

\* JSON.parse(raw) of readJsonBody throws on text that is no JSON.
ParseThrows(b) == b = "malformed"

\* const { audioBase64 } = body throws when body is null.
DestructureThrows(b) == b = "null"

\* if (!response.ok): the provider's status and error text are passed on,
\* and the provider is not called again.
OnNotOkRetry(rq, status) ==
    IF rq.calls < 3
    THEN [rq EXCEPT !.calls = @ + 1]
    ELSE SendJson(rq, status, "error")
OnNotOk(rq, status) == SendJson(rq, status, "error")

\* if (!openAiKey): the handler answers 200 with its mock payload and
\* returns before its fetch of the provider.
OnNoKeyBug(rq) == [rq EXCEPT !.pc = "calling", !.calls = @ + 1]
OnNoKey(rq) == SendJson(rq, 200, "mock")

\* The audioBase64 of handleTts's mock payload, { audioBase64: "", note:
\* "mock" }, as a payload of the page's /api/tts request.
MockTtsPayload == "empty"

\* The request listener up to the first await of the handler it picks: the
\* handlers are returned, not awaited, inside the try block.
Dispatch(rq, inp) ==
    LET got == [rq EXCEPT !.input = inp]
    IN  IF inp.url = "/api/health" /\ inp.method = "GET"
        THEN SendJson(got, 200, "ok")
        ELSE IF inp.url \in Endpoints /\ inp.method = "POST"
        THEN [got EXCEPT !.pc = "reading"]
        ELSE SendJson(got, 404, "error")

\* A request arrives; the slots fill in order.
Arrive(q, inp) ==
    /\ ~crashed
    /\ requests[q].pc = "free"
    /\ \A p \in Reqs : p < q => requests[p].pc # "free"
    /\ requests' = [requests EXCEPT ![q] = Dispatch(@, inp)]
    /\ UNCHANGED <<panVars, staticVars, pageVars, recVars, openAiKey, crashed>>

\* handleTranscribe, handleAnalyze, handleTts from the end of readJsonBody to
\* the call of the provider. An error thrown here rejects the handler's
\* promise, which the listener has returned without awaiting: its catch does
\* not run, no answer is sent, and the rejection is unhandled. The process
\* then dies (the default since Node 15) or, where unhandled rejections only
\* warn, lives on with the request unanswered.
BodyRead(q, dies) ==
    /\ ~crashed
    /\ requests[q].pc = "reading"
    /\ LET b == requests[q].input.body
       IN  IF ParseThrows(b) \/ DestructureThrows(b)
           THEN /\ requests' = [requests EXCEPT ![q].pc = "lost", ![q].failure = b]
                /\ crashed' = dies
           ELSE /\ crashed' = crashed
                /\ requests' = [requests EXCEPT ![q] =
                       IF FieldMissing(b)
                       THEN SendJson(@, 400, "error")
                       ELSE IF openAiKey = Null
                       THEN OnNoKey(@)
                       ELSE [@ EXCEPT !.pc = "calling", !.calls = @ + 1]]
    /\ UNCHANGED <<panVars, staticVars, pageVars, recVars, openAiKey>>

\* The handler from the end of its call of the provider on.
ProviderDone(q, out, dies) ==
    /\ ~crashed
    /\ requests[q].pc = "calling"
    /\ out.kind = "badjson" => requests[q].input.url # "/api/tts"
    /\ IF out.kind \in {"network", "badjson"}
       THEN /\ requests' = [requests EXCEPT ![q].pc = "lost", ![q].failure = out.kind]
            /\ crashed' = dies
       ELSE /\ crashed' = crashed
            /\ requests' = [requests EXCEPT ![q] =
                   IF out.kind = "notok"
                   THEN OnNotOk(@, out.status)
                   ELSE SendJson(@, 200, "result")]
    /\ UNCHANGED <<panVars, staticVars, pageVars, recVars, openAiKey>>

\* ------------------------------------------------------ the static files

\* How many path segments a request target has at most.
MaxSegs == 3

\* How many times serveStatic is called on one request target.
MaxServes == 1

\* "/" and "\": the URL parser of an http URL takes both as separators.
UrlSeps == {"/", "\\"}

\* The other characters of a path are ".", letters, and "%2e", which stands
\* for the three characters of a percent-encoded dot; "index.html" stands
\* for the characters of that name.

\* s cut at the separators seps, the empty pieces kept: "/a//b" gives
\* "", "a", "", "b".
RECURSIVE SplitFrom(_, _, _, _)
SplitFrom(s, i, cur, seps) ==
    IF i > Len(s) THEN <<cur>>
    ELSE IF s[i] \in seps THEN <<cur>> \o SplitFrom(s, i + 1, <<>>, seps)
    ELSE SplitFrom(s, i + 1, Append(cur, s[i]), seps)

Split(s, seps) == SplitFrom(s, 1, <<>>, seps)

\* The segments segs behind "/" each.
RECURSIVE SlashJoin(_)
SlashJoin(segs) ==
    IF segs = <<>> THEN <<>>
    ELSE <<"/">> \o Head(segs) \o SlashJoin(Tail(segs))

\* The single-dot and double-dot path segments of the URL parser: the dots
\* may be percent-encoded.
SingleDot(seg) == seg \in {<<".">>, <<"%2e">>}
DoubleDot(seg) ==
    seg \in {<<".", ".">>, <<".", "%2e">>, <<"%2e", ".">>, <<"%2e", "%2e">>}

\* The path state of the URL parser over the segments from the k-th on:
\* a double-dot segment drops the last segment of path, a single-dot segment
\* is dropped, and either leaves an empty segment when it is the last.
RECURSIVE PathState(_, _, _)
PathState(segs, k, path) ==
    IF k > Len(segs) THEN path
    ELSE LET seg == segs[k]
             last == k = Len(segs)
             shorter == IF path = <<>> THEN path ELSE SubSeq(path, 1, Len(path) - 1)
         IN  IF DoubleDot(seg)
             THEN PathState(segs, k + 1, IF last THEN Append(shorter, <<>>) ELSE shorter)
             ELSE IF SingleDot(seg)
             THEN PathState(segs, k + 1, IF last THEN Append(path, <<>>) ELSE path)
             ELSE PathState(segs, k + 1, Append(path, seg))

\* The position of the first character of s from i on that is no separator,
\* and of the first that is one (Len(s) + 1 if there is none).
RECURSIVE SkipSeps(_, _)
SkipSeps(s, i) ==
    IF i <= Len(s) /\ s[i] \in UrlSeps THEN SkipSeps(s, i + 1) ELSE i
RECURSIVE NextSep(_, _)
NextSep(s, i) ==
    IF i <= Len(s) /\ s[i] \notin UrlSeps THEN NextSep(s, i + 1) ELSE i

\* What the URL parser reads the path from: a target that begins with two
\* separators names a host first, and the path is what follows the host.
PathPart(url) ==
    IF Len(url) >= 2 /\ url[1] \in UrlSeps /\ url[2] \in UrlSeps
    THEN LET h == NextSep(url, SkipSeps(url, 1))
         IN  SubSeq(url, h + 1, Len(url))
    ELSE IF Len(url) >= 1 /\ url[1] \in UrlSeps
    THEN SubSeq(url, 2, Len(url))
    ELSE url

\* new URL(req.url, `http://${req.headers.host}`).pathname.
UrlPathnameRaw(url) == SlashJoin(Split(PathPart(url), {"/"}))
UrlPathname(url) == SlashJoin(PathState(Split(PathPart(url), UrlSeps), 1, <<>>))

\* path.normalize over the segments from the k-th on: "" and "." are
\* dropped, ".." drops the segment before it and stops at the root. A
\* percent-encoded dot is a name like any other here.
RECURSIVE Normalize(_, _, _)
Normalize(segs, k, out) ==
    IF k > Len(segs) THEN out
    ELSE LET seg == segs[k]
         IN  IF seg = <<>> \/ seg = <<".">>
             THEN Normalize(segs, k + 1, out)
             ELSE IF seg = <<".", ".">>
             THEN Normalize(segs, k + 1,
                            IF out = <<>> THEN out ELSE SubSeq(out, 1, Len(out) - 1))
             ELSE Normalize(segs, k + 1, Append(out, seg))

\* path.join(a, b) of two paths, the first absolute: the two are joined by
\* "/" and normalized; a trailing "/" is kept.
PathJoin(a, b) ==
    LET joined == a \o <<"/">> \o b
        segs == Normalize(Split(joined, {"/"}), 1, <<>>)
        trailing == joined[Len(joined)] = "/" /\ segs # <<>>
    IN  IF segs = <<>> THEN <<"/">>
        ELSE SlashJoin(segs) \o (IF trailing THEN <<"/">> ELSE <<>>)

\* path.resolve(__dirname, "../../") and path.join(appRoot, "apps/web").
appRoot == <<"/", "a">>
webRoot == PathJoin(appRoot, <<"w">>)

\* String.prototype.startsWith.
StartsWith(s, prefix) ==
    /\ Len(s) >= Len(prefix)
    /\ SubSeq(s, 1, Len(prefix)) = prefix

\* serveStatic up to fs.readFile: the file path the request resolves to.
FilePath(url) ==
    LET requested == UrlPathname(url)
        pathname == IF requested = <<"/">> THEN <<"/", "index.html">> ELSE requested
    IN  PathJoin(webRoot, pathname)

\* serveStatic: 403 without a read when the file path does not start with
\* webRoot; else the file is read, and the answer is 200 or, when the read
\* fails, 404.
serveStatic(url, exists) ==
    LET filePath == FilePath(url)
    IN  IF ~StartsWith(filePath, webRoot)
        THEN [status |-> 403, read |-> <<>>]
        ELSE [status |-> IF exists THEN 200 ELSE 404, read |-> filePath]

\* The request targets: up to MaxSegs segments, each behind a separator.
UrlSegments ==
    {<<".", ".">>, <<".">>, <<"%2e", "%2e">>, <<"w", "x">>, <<"f">>, <<>>}
UrlPieces == {<<c>> \o seg : c \in UrlSeps, seg \in UrlSegments}

RECURSIVE UrlsOf(_)
UrlsOf(n) ==
    IF n = 1 THEN UrlPieces
    ELSE LET shorter == UrlsOf(n - 1)
         IN  shorter \cup {u \o p : u \in shorter, p \in UrlPieces}

Urls == UrlsOf(MaxSegs)

\* No request for a static file is under study.
StaticIdle ==
    /\ staticUrl = <<>>
    /\ staticCalls = <<>>

\* The page as the script leaves it at load, before any event.
PageInit ==
    /\ camera = "pending"
    /\ lastImageBase64 = Null
    /\ descriptionEl = <<>>
    /\ audioEl = [src |-> 0, playing |-> FALSE]
    /\ runs = [r \in Runs |-> IdleRun]
    /\ sink = <<>>
    /\ console = <<>>

\* The page at load, nothing recorded, the analyze button disabled.
PageIdle ==
    /\ PageInit
    /\ lastAudioBase64 = Null
    /\ analyzeBtnDisabled = TRUE
    /\ statusEl = Null

PanInit ==
    /\ panText \in Texts
    /\ panCalls = <<>>
    /\ PageIdle
    /\ RelayIdle
    /\ StaticIdle
    /\ RecIdle

\* One call extractPan(panText).
CallExtractPan ==
    /\ Len(panCalls) < MaxCalls
    /\ panCalls' = Append(panCalls, CallOutcome(panText))
    /\ UNCHANGED <<panText, staticVars, pageVars, relayVars, recVars>>

PanNext == CallExtractPan

PanSpec == PanInit /\ [][PanNext]_vars

\* --------------------------------------------------------- the pipeline

\* a || b of JavaScript on strings: the empty string is falsy.
OrElse(a, b) == IF a # <<>> THEN a ELSE b

\* if (!data.audioBase64) return: an absent or empty payload is skipped.
HasPayloadBug(p) == p # "absent"
HasPayload(p) == p \notin {"absent", "empty"}

\* atob(base64) in base64ToBlob: throws on text that is no base64.
AtobOk(p) == p # "badbase64"

\* audioContext.decodeAudioData(buffer): rejects when the bytes are no audio.
Decodes(p) == p = "audio"

\* audioEl.src = audioUrl: the element loads the new source; the script never
\* calls audioEl.play().
AudioElAfterSrcBug(r) == [src |-> r, playing |-> TRUE]
AudioElAfterSrc(r) == [src |-> r, playing |-> FALSE]

\* catch (error) { console.error(error); } of speakDescription: what run r
\* writes to the console for the error err.
SpeakCatchBug(r, err) == <<>>
SpeakCatch(r, err) == <<[run |-> r, error |-> err]>>

\* The text playSpatial passes to extractPan: its own parameter.
PlaySpatialTextBug(r) == descriptionEl
PlaySpatialText(r) == runs[r].text

\* The tail of playSpatial after decoding: the calls on the audio graph, in
\* the order of the code.
TailOpsBug(pan) == <<[op |-> "start", arg |-> 0], [op |-> "pan", arg |-> pan]>>
TailOps(pan) == <<[op |-> "pan", arg |-> pan], [op |-> "start", arg |-> 0]>>

\* What playSpatial's promise resolves with: the function has no return
\* statement, and source and audioContext are locals no one else holds.
PlaySpatialReturnBug == "handle"
PlaySpatialReturn == "undefined"

\* The sink after source.start(0) of run r: the source sounds at once, in its
\* own AudioContext, behind no other invocation.
SinkAfterStartBug(s, r) ==
    LET before == SelectSeq(s, LAMBDA q : runs[q].psSeq < runs[r].psSeq)
        after == SelectSeq(s, LAMBDA q : runs[q].psSeq > runs[r].psSeq)
    IN  before \o <<r>> \o after
SinkAfterStart(s, r) == Append(s, r)

\* The other runs after run r has started its source: playSpatial holds no
\* reference to an earlier source or context, and stops none.
OthersAfterStartBug(rs, r) ==
    [q \in Runs |->
        IF q # r /\ rs[q].sound = "playing"
        THEN [rs[q] EXCEPT !.sound = "ended"]
        ELSE rs[q]]
OthersAfterStart(rs, r) == rs

\* How many of ops start a source.
RECURSIVE Starts(_)
Starts(ops) ==
    IF ops = <<>> THEN 0
    ELSE (IF Head(ops).op = "start" THEN 1 ELSE 0) + Starts(Tail(ops))

\* Run r's record when playSpatial has made the calls ops on its graph: the
\* function ends right after source.start(0), without awaiting the end of
\* the clip, so its promise resolves and its callers resume.
PlaySpatialDoneBug(run, ops) ==
    [run EXCEPT !.pc = "wait",
                !.graph = @ \o ops,
                !.sound = IF Starts(ops) > 0 THEN "playing" ELSE @,
                !.playbacks = @ + Starts(ops)]
PlaySpatialDone(run, ops) ==
    [run EXCEPT !.pc = "done",
                !.psResult = "resolved",
                !.psValue = PlaySpatialReturn,
                !.graph = @ \o ops,
                !.sound = IF Starts(ops) > 0 THEN "playing" ELSE @,
                !.playbacks = @ + Starts(ops)]

\* How many calls of playSpatial have been made, and how many have settled.
PsCalls == Cardinality({q \in Runs : runs[q].psCalled})
PsSettled == Cardinality({q \in Runs : runs[q].psResult \in {"resolved", "rejected"}})

\* The runs begun so far.
Begun == {r \in Runs : runs[r].pc # "idle"}

\* initCamera: the camera stream arrives and the preview has a width.
InitCameraLive ==
    /\ camera = "pending"
    /\ camera' = "live"
    /\ UNCHANGED <<panVars, staticVars, relayVars, recVars, lastAudioBase64, lastImageBase64, analyzeBtnDisabled,
                   statusEl, descriptionEl, audioEl, runs, sink, console>>

\* initCamera: getUserMedia rejects.
InitCameraDenied ==
    /\ camera = "pending"
    /\ camera' = "denied"
    /\ statusEl' = "Camera access denied."
    /\ UNCHANGED <<panVars, staticVars, relayVars, recVars, lastAudioBase64, lastImageBase64, analyzeBtnDisabled,
                   descriptionEl, audioEl, runs, sink, console>>

\* captureFrame, a click on captureBtn.
CaptureFrame ==
    /\ IF camera # "live"
       THEN UNCHANGED <<lastImageBase64, statusEl, analyzeBtnDisabled>>
       ELSE /\ lastImageBase64' = Frame
            /\ statusEl' = "Frame captured."
            /\ analyzeBtnDisabled' =
                   ~(lastAudioBase64 # Null /\ lastImageBase64' # Null)
    /\ UNCHANGED <<panVars, staticVars, relayVars, recVars, camera, lastAudioBase64, descriptionEl, audioEl,
                   runs, sink, console>>

\* analyzeScene up to its first await, a click on analyzeBtn (a disabled
\* button dispatches no click).
AnalyzeClick ==
    /\ ~analyzeBtnDisabled
    /\ Cardinality(Begun) < MaxRuns
    /\ IF lastImageBase64 = Null
       THEN UNCHANGED <<descriptionEl, statusEl, runs>>
       ELSE LET r == Cardinality(Begun) + 1
            IN  /\ descriptionEl' = Lit("Analyzing...")
                /\ statusEl' = "Analyzing scene..."
                /\ runs' = [runs EXCEPT ![r].pc = "analyze"]
    /\ UNCHANGED <<panVars, staticVars, relayVars, recVars, camera, lastAudioBase64, lastImageBase64,
                   analyzeBtnDisabled, audioEl, sink, console>>

\* analyzeScene from the response of /api/analyze on: the description is
\* shown and speakDescription runs up to its first await.
AnalyzeResponse(r, out) ==
    /\ runs[r].pc = "analyze"
    /\ IF out.kind = "reject"
       THEN /\ descriptionEl' = Lit("Analysis failed.")
            /\ runs' = [runs EXCEPT ![r].pc = "done"]
            /\ UNCHANGED statusEl
       ELSE /\ descriptionEl' =
                   OrElse(out.description, OrElse(out.error, Lit("No description.")))
            /\ IF out.description = <<>>
               THEN /\ runs' = [runs EXCEPT ![r].pc = "done"]
                    /\ statusEl' = "Analysis complete."
               ELSE /\ runs' = [runs EXCEPT ![r].pc = "tts",
                                            ![r].text = out.description]
                    /\ UNCHANGED statusEl
    /\ UNCHANGED <<panVars, staticVars, relayVars, recVars, camera, lastAudioBase64, lastImageBase64,
                   analyzeBtnDisabled, audioEl, sink, console>>

\* speakDescription from the response of /api/tts on, playSpatial up to its
\* first await included; when speakDescription returns, analyzeScene sets the
\* status and returns.
TtsResponse(r, out) ==
    /\ runs[r].pc = "tts"
    /\ IF out = "reject"
       THEN /\ runs' = [runs EXCEPT ![r].pc = "done", ![r].caught = "TypeError"]
            /\ console' = console \o SpeakCatch(r, "TypeError")
            /\ statusEl' = "Analysis complete."
            /\ UNCHANGED audioEl
       ELSE IF ~HasPayload(out)
       THEN /\ runs' = [runs EXCEPT ![r].pc = "done", ![r].payload = out]
            /\ statusEl' = "Analysis complete."
            /\ UNCHANGED <<console, audioEl>>
       ELSE IF ~AtobOk(out)
       THEN /\ runs' = [runs EXCEPT ![r].pc = "done", ![r].payload = out,
                                    ![r].caught = "InvalidCharacterError"]
            /\ console' = console \o SpeakCatch(r, "InvalidCharacterError")
            /\ statusEl' = "Analysis complete."
            /\ UNCHANGED audioEl
       ELSE /\ audioEl' = AudioElAfterSrc(r)
            /\ runs' = [runs EXCEPT ![r].pc = "decode", ![r].payload = out,
                                    ![r].psCalled = TRUE,
                                    ![r].psSeq = PsCalls + 1,
                                    ![r].psResult = "pending",
                                    ![r].playbacks =
                                        @ + (IF audioEl'.playing THEN 1 ELSE 0)]
            /\ UNCHANGED <<console, statusEl>>
    /\ UNCHANGED <<panVars, staticVars, relayVars, recVars, camera, lastAudioBase64, lastImageBase64,
                   analyzeBtnDisabled, descriptionEl, sink>>

\* playSpatial from the end of decoding on: either decodeAudioData rejects,
\* which speakDescription catches, or the graph is built and the source
\* started; then analyzeScene sets the status and returns.
DecodeDone(r) ==
    /\ runs[r].pc = "decode"
    /\ IF ~Decodes(runs[r].payload)
       THEN /\ runs' = [runs EXCEPT ![r].pc = "done", ![r].psResult = "rejected",
                                    ![r].decSeq = PsSettled + 1,
                                    ![r].caught = "EncodingError"]
            /\ console' = console \o SpeakCatch(r, "EncodingError")
            /\ UNCHANGED sink
       ELSE LET ops == TailOps(extractPan(PlaySpatialText(r)))
                done == PlaySpatialDone([runs[r] EXCEPT !.decSeq = PsSettled + 1], ops)
            IN  /\ runs' = OthersAfterStart([runs EXCEPT ![r] = done], r)
                /\ sink' = IF Starts(ops) > 0 THEN SinkAfterStart(sink, r) ELSE sink
                /\ UNCHANGED console
    /\ statusEl' = "Analysis complete."
    /\ UNCHANGED <<panVars, staticVars, relayVars, recVars, camera, lastAudioBase64, lastImageBase64,
                   analyzeBtnDisabled, descriptionEl, audioEl>>

\* The source of run r plays its buffer to the end.
PlaybackEnded(r) ==
    /\ runs[r].sound = "playing"
    /\ runs' = [runs EXCEPT ![r].sound = "ended"]
    /\ UNCHANGED <<panVars, staticVars, relayVars, recVars, camera, lastAudioBase64, lastImageBase64,
                   analyzeBtnDisabled, statusEl, descriptionEl, audioEl, sink,
                   console>>

\* The page at load, or after one recording has been made and transcribed
\* (mediaRecorder.onstop has run to its end with no frame captured yet). The
\* markup, which is not part of the script, decides whether the analyze
\* button starts disabled.
Init ==
    /\ panText = <<>>
    /\ panCalls = <<>>
    /\ PageInit
    /\ RelayIdle
    /\ StaticIdle
    /\ RecIdle
    /\ \/ /\ lastAudioBase64 = Null
          /\ analyzeBtnDisabled \in BOOLEAN
          /\ statusEl = Null
       \/ /\ lastAudioBase64 = Audio
          /\ analyzeBtnDisabled = TRUE
          /\ statusEl = "Audio ready."

Next ==
    \/ InitCameraLive
    \/ InitCameraDenied
    \/ CaptureFrame
    \/ AnalyzeClick
    \/ \E r \in Runs : \E out \in AnalyzeOutcomes : AnalyzeResponse(r, out)
    \/ \E r \in Runs : \E out \in TtsOutcomes : TtsResponse(r, out)
    \/ \E r \in Runs : DecodeDone(r)
    \/ \E r \in Runs : PlaybackEnded(r)

Spec == Init /\ [][Next]_vars

\* How many analyses PureSpec lets the page run between the calls.
PureRuns == 1

\* The texts PureSpec calls extractPan on, between the page's operations.
PureTexts == {P3, <<"1">> \o P2}

PureInit ==
    /\ panText \in PureTexts
    /\ panCalls = <<>>
    /\ PageInit
    /\ RelayIdle
    /\ StaticIdle
    /\ RecIdle
    /\ lastAudioBase64 = Audio
    /\ analyzeBtnDisabled = TRUE
    /\ statusEl = "Audio ready."

\* extractPan called on one text, again and again, between the operations
\* of the page.
PureNext ==
    \/ CallExtractPan
    \/ InitCameraLive
    \/ InitCameraDenied
    \/ CaptureFrame
    \/ (Cardinality(Begun) < PureRuns /\ AnalyzeClick)
    \/ \E r \in Runs : \E out \in AnalyzeOutcomes : AnalyzeResponse(r, out)
    \/ \E r \in Runs : \E out \in TtsOutcomes : TtsResponse(r, out)
    \/ \E r \in Runs : DecodeDone(r)
    \/ \E r \in Runs : PlaybackEnded(r)

PureSpec == PureInit /\ [][PureNext]_vars

\* The relay alone, with or without a key in its environment.
RelayInit ==
    /\ panText = <<>>
    /\ panCalls = <<>>
    /\ PageIdle
    /\ openAiKey \in {Null, "sk-key"}
    /\ requests = [q \in Reqs |-> FreeRequest]
    /\ crashed = FALSE
    /\ RecIdle
    /\ StaticIdle

RelayNext ==
    \/ \E q \in Reqs : \E inp \in RequestInputs : Arrive(q, inp)
    \/ \E q \in Reqs : \E dies \in BOOLEAN : BodyRead(q, dies)
    \/ \E q \in Reqs : \E out \in ProviderOutcomes : \E dies \in BOOLEAN :
          ProviderDone(q, out, dies)

RelaySpec == RelayInit /\ [][RelayNext]_vars

\* ------------------------------------------------- the recorder's handlers

\* What can come back from POST /api/transcribe: the request fails or its
\* body is no JSON ("reject"), or a JSON object with a text, with an error
\* message, or with neither.
TranscribeOutcomes == {"reject", "text", "error", "neither"}

\* analyzeBtn.disabled = !(lastAudioBase64 && lastImageBase64).
AnalyzeDisabled(audio, image) == ~(audio # Null /\ image # Null)

\* A click on the start button: startRecording up to await getUserMedia. A
\* disabled button gets no click; the button is disabled only further down,
\* after the await.
StartClick(s) ==
    /\ ~startBtnDisabled
    /\ recordings[s].pc = "idle"
    /\ \A t \in Recs : t < s => recordings[t].pc # "idle"
    /\ recordings' = [recordings EXCEPT ![s].pc = "asking"]
    /\ UNCHANGED <<panVars, staticVars, pageVars, relayVars, startBtnDisabled, stopBtnDisabled,
                   transcriptEl, mediaRecorder, audioChunks>>

\* getUserMedia resolves: startRecording from new MediaRecorder(stream) to
\* its end. The recorder made before, if any, is no longer referred to.
MicGranted(s) ==
    /\ recordings[s].pc = "asking"
    /\ mediaRecorder' = s
    /\ audioChunks' = <<>>
    /\ recordings' = [recordings EXCEPT ![s].pc = "recording"]
    /\ statusEl' = "Recording..."
    /\ startBtnDisabled' = TRUE
    /\ stopBtnDisabled' = FALSE
    /\ UNCHANGED <<panVars, staticVars, relayVars, camera, lastAudioBase64, lastImageBase64,
                   analyzeBtnDisabled, descriptionEl, audioEl, runs, sink, console,
                   transcriptEl>>

\* getUserMedia rejects: the catch of startRecording.
MicDenied(s) ==
    /\ recordings[s].pc = "asking"
    /\ recordings' = [recordings EXCEPT ![s].pc = "denied"]
    /\ statusEl' = "Microphone access denied."
    /\ UNCHANGED <<panVars, staticVars, relayVars, camera, lastAudioBase64, lastImageBase64,
                   analyzeBtnDisabled, descriptionEl, audioEl, runs, sink, console,
                   startBtnDisabled, stopBtnDisabled, transcriptEl, mediaRecorder,
                   audioChunks>>

\* A click on the stop button: stopRecording. It stops the recorder that
\* mediaRecorder refers to, and no other.
StopClick ==
    /\ ~stopBtnDisabled
    /\ IF mediaRecorder # 0 /\ recordings[mediaRecorder].pc = "recording"
       THEN /\ recordings' = [recordings EXCEPT ![mediaRecorder].pc = "stopping"]
            /\ statusEl' = "Processing audio..."
       ELSE UNCHANGED <<recordings, statusEl>>
    /\ stopBtnDisabled' = TRUE
    /\ startBtnDisabled' = FALSE
    /\ UNCHANGED <<panVars, staticVars, relayVars, camera, lastAudioBase64, lastImageBase64,
                   analyzeBtnDisabled, descriptionEl, audioEl, runs, sink, console,
                   transcriptEl, mediaRecorder, audioChunks>>

\* The dataavailable event of a stopped recorder: ondataavailable.
DataAvailable(s, hasData) ==
    /\ recordings[s].pc = "stopping"
    /\ recordings' = [recordings EXCEPT ![s].pc = "flushed",
                                        ![s].produced = IF hasData THEN <<s>> ELSE <<>>]
    /\ audioChunks' = IF hasData THEN Append(audioChunks, s) ELSE audioChunks
    /\ UNCHANGED <<panVars, staticVars, pageVars, relayVars, startBtnDisabled, stopBtnDisabled,
                   transcriptEl, mediaRecorder>>

\* The stop event of a stopped recorder: onstop up to await blobToBase64.
OnStop(s) ==
    /\ recordings[s].pc = "flushed"
    /\ recordings' = [recordings EXCEPT ![s].pc = "converting", ![s].blob = audioChunks]
    /\ UNCHANGED <<panVars, staticVars, pageVars, relayVars, startBtnDisabled, stopBtnDisabled,
                   transcriptEl, mediaRecorder, audioChunks>>

\* blobToBase64 resolves: onstop up to the fetch of transcribeAudio. The
\* base64 text of a blob without chunks is "".
BlobConverted(s) ==
    /\ recordings[s].pc = "converting"
    /\ recordings' = [recordings EXCEPT ![s].pc = "transcribing"]
    /\ lastAudioBase64' = IF recordings[s].blob = <<>> THEN Null ELSE Audio
    /\ transcriptEl' = "Transcribing..."
    /\ UNCHANGED <<panVars, staticVars, relayVars, camera, lastImageBase64, analyzeBtnDisabled,
                   statusEl, descriptionEl, audioEl, runs, sink, console,
                   startBtnDisabled, stopBtnDisabled, mediaRecorder, audioChunks>>

\* transcribeAudio from the end of its fetch on, and the last line of onstop.
TranscribeResponse(s, out) ==
    /\ recordings[s].pc = "transcribing"
    /\ recordings' = [recordings EXCEPT ![s].pc = "done"]
    /\ IF out = "reject"
       THEN /\ transcriptEl' = "Transcription failed."
            /\ UNCHANGED statusEl
       ELSE /\ transcriptEl' = (IF out = "neither" THEN "Transcription failed" ELSE out)
            /\ statusEl' = "Audio ready."
    /\ analyzeBtnDisabled' = AnalyzeDisabled(lastAudioBase64, lastImageBase64)
    /\ UNCHANGED <<panVars, staticVars, relayVars, camera, lastAudioBase64, lastImageBase64,
                   descriptionEl, audioEl, runs, sink, console,
                   startBtnDisabled, stopBtnDisabled, mediaRecorder, audioChunks>>

\* The page at load with its recorder; whether the markup leaves the stop
\* and analyze buttons disabled is not in the script.
RecInit ==
    /\ panText = <<>>
    /\ panCalls = <<>>
    /\ PageInit
    /\ lastAudioBase64 = Null
    /\ analyzeBtnDisabled \in BOOLEAN
    /\ statusEl = Null
    /\ RelayIdle
    /\ StaticIdle
    /\ startBtnDisabled = FALSE
    /\ stopBtnDisabled \in BOOLEAN
    /\ transcriptEl = Null
    /\ mediaRecorder = 0
    /\ audioChunks = <<>>
    /\ recordings = [s \in Recs |-> IdleRecording]

RecNext ==
    \/ \E s \in Recs : StartClick(s)
    \/ \E s \in Recs : MicGranted(s)
    \/ \E s \in Recs : MicDenied(s)
    \/ StopClick
    \/ \E s \in Recs, hasData \in BOOLEAN : DataAvailable(s, hasData)
    \/ \E s \in Recs : OnStop(s)
    \/ \E s \in Recs : BlobConverted(s)
    \/ \E s \in Recs, out \in TranscribeOutcomes : TranscribeResponse(s, out)
    \/ InitCameraLive
    \/ InitCameraDenied
    \/ CaptureFrame

RecSpec == RecInit /\ [][RecNext]_vars

\* The recorder, the camera and the analyze button together: the events that
\* write analyzeBtn.disabled, and the click the button lets through.
GateNext ==
    \/ RecNext
    \/ AnalyzeClick

GateSpec == RecInit /\ [][GateNext]_vars

\* ---------------------------------------------- the static files' requests

\* The listener hands a request whose url does not start with /api/ to
\* serveStatic.
CallServeStatic(exists) ==
    /\ Len(staticCalls) < MaxServes
    /\ staticCalls' = Append(staticCalls, serveStatic(staticUrl, exists))
    /\ UNCHANGED <<panVars, staticUrl, pageVars, relayVars, recVars>>

StaticInit ==
    /\ panText = <<>>
    /\ panCalls = <<>>
    /\ PageIdle
    /\ RelayIdle
    /\ RecIdle
    /\ staticUrl \in Urls
    /\ staticCalls = <<>>

StaticNext == \E exists \in BOOLEAN : CallServeStatic(exists)

StaticSpec == StaticInit /\ [][StaticNext]_vars

\* ------------------------------------------------- the claims' vocabulary

\* Letter case folded to lower case, for "in any letter case".
FoldCase(c) ==
    CASE c = "O" -> "o"
      [] c = "C" -> "c"
      [] c = "L" -> "l"
      [] c = "K" -> "k"
      [] c = "S" -> "s"
      [] OTHER -> c

\* A letter, a digit or an underscore.
IsTokenChar(c) ==
    c \in {"0", "1", "2", "3", "4", "8", "9", "_",
            "o", "c", "l", "k", "s", "O", "C", "L", "K", "S"}

RightPhrases ==
    {<<"2", " ", "o", "'", "c", "l", "o", "c", "k">>,
     <<"3", " ", "o", "'", "c", "l", "o", "c", "k">>,
     <<"4", " ", "o", "'", "c", "l", "o", "c", "k">>}
LeftPhrases ==
    {<<"8", " ", "o", "'", "c", "l", "o", "c", "k">>,
     <<"9", " ", "o", "'", "c", "l", "o", "c", "k">>,
     <<"1", "0", " ", "o", "'", "c", "l", "o", "c", "k">>}

\* phrase occurs in text at position i, in any letter case.
OccursAt(text, i, phrase) ==
    /\ i + Len(phrase) - 1 <= Len(text)
    /\ \A j \in 1..Len(phrase) : FoldCase(text[i + j - 1]) = phrase[j]

\* text contains one of phrases as a substring, in any letter case.
ContainsPhrase(text, phrases) ==
    \E ph \in phrases : \E i \in 1..Len(text) : OccursAt(text, i, ph)

\* text contains one of phrases as a whole token: an occurrence with no
\* letter, digit or underscore directly before it or directly after it.
ContainsToken(text, phrases) ==
    \E ph \in phrases : \E i \in 1..Len(text) :
        /\ OccursAt(text, i, ph)
        /\ (i = 1 \/ ~IsTokenChar(text[i - 1]))
        /\ (i + Len(ph) > Len(text) \/ ~IsTokenChar(text[i + Len(ph)]))

HasUpperCase(text) == \E i \in 1..Len(text) : FoldCase(text[i]) # text[i]

\* Every call made so far returned v.
AllReturned(v) == \A k \in 1..Len(panCalls) : panCalls[k].value = v

Called == Len(panCalls) > 0

\* ----------------------------------------------------------------- claims

\* C1 as stated: a text that contains "2 o'clock", "3 o'clock" or "4 o'clock"
\* in any letter case, and no left-range phrase, yields 0.6. Refuted by
\* "12 o'clock", which contains "2 o'clock" and yields 0.
C1_RightSubstring ==
    (ContainsPhrase(panText, RightPhrases) /\ ~ContainsPhrase(panText, LeftPhrases))
        => AllReturned(6)

\* C1 amended: a text that contains a right-range phrase as a whole token (no
\* letter, digit or underscore directly before or after it), in any letter
\* case, and no left-range phrase, yields 0.6.
C1_RightToken ==
    (ContainsToken(panText, RightPhrases) /\ ~ContainsPhrase(panText, LeftPhrases))
        => AllReturned(6)

C1_Witness ==
    /\ Called
    /\ ContainsToken(panText, RightPhrases)
    /\ ~ContainsPhrase(panText, LeftPhrases)
    /\ HasUpperCase(panText)
    /\ AllReturned(6)

\* C2 as stated: a text that contains "8 o'clock", "9 o'clock" or
\* "10 o'clock" in any letter case, and no right-range phrase, yields -0.6.
\* Refuted by "110 o'clock" and by "9 o'clocks", which yield 0.
C2_LeftSubstring ==
    (ContainsPhrase(panText, LeftPhrases) /\ ~ContainsPhrase(panText, RightPhrases))
        => AllReturned(-6)

\* C2 amended: a text that contains a left-range phrase as a whole token, in
\* any letter case, and no right-range phrase as a whole token, yields -0.6.
C2_LeftToken ==
    (ContainsToken(panText, LeftPhrases) /\ ~ContainsToken(panText, RightPhrases))
        => AllReturned(-6)

C2_Witness ==
    /\ Called
    /\ ContainsToken(panText, LeftPhrases)
    /\ ~ContainsToken(panText, RightPhrases)
    /\ ContainsPhrase(panText, RightPhrases)
    /\ AllReturned(-6)

\* C3 as stated: a text that contains both a right-range and a left-range
\* phrase yields 0.6. Refuted by "12 o'clock 9 o'clock", which yields -0.6.
C3_BothSubstring ==
    (ContainsPhrase(panText, RightPhrases) /\ ContainsPhrase(panText, LeftPhrases))
        => AllReturned(6)

\* C3 amended: a text that contains a right-range phrase as a whole token and
\* a left-range phrase (as a whole token or not) yields 0.6, whatever the
\* order of the two.
C3_RightTokenWins ==
    (ContainsToken(panText, RightPhrases) /\ ContainsPhrase(panText, LeftPhrases))
        => AllReturned(6)

\* The left phrase comes first in the text, as a whole token, and right wins.
C3_Witness ==
    /\ Called
    /\ panText = P9 \o <<" ">> \o P3
    /\ ContainsToken(panText, LeftPhrases)
    /\ ContainsToken(panText, RightPhrases)
    /\ AllReturned(6)

\* C4: a text that contains neither a right-range nor a left-range phrase,
\* the empty text included, yields 0.
C4_NeitherIsCenter ==
    (~ContainsPhrase(panText, RightPhrases) /\ ~ContainsPhrase(panText, LeftPhrases))
        => AllReturned(0)

\* A text that mentions a clock position outside both ranges.
C4_Witness ==
    /\ Called
    /\ panText = <<"1">> \o OClock
    /\ ~ContainsPhrase(panText, RightPhrases)
    /\ ~ContainsPhrase(panText, LeftPhrases)
    /\ AllReturned(0)

\* C5: extractPan is total: every call returns without raising an error, and
\* the value is a PanValue in [-1.0, 1.0], one of -0.6, 0 and 0.6.
C5_TotalInRange ==
    \A k \in 1..Len(panCalls) :
        /\ ~panCalls[k].threw
        /\ panCalls[k].value \in {-6, 0, 6}
        /\ panCalls[k].value >= -10
        /\ panCalls[k].value <= 10

\* Every call of the behaviour made, on a text with a left-range token.
C5_Witness ==
    /\ Len(panCalls) = MaxCalls
    /\ ContainsToken(panText, LeftPhrases)
    /\ ~ContainsToken(panText, RightPhrases)
    /\ panCalls[1].value = -6

\* The console holds an error of run r.
Logged(r, err) ==
    \E k \in 1..Len(console) : console[k] = [run |-> r, error |-> err]

LoggedAny(r) == \E k \in 1..Len(console) : console[k].run = r

\* Run r's playback reached the audio sink.
InSink(r) == \E k \in 1..Len(sink) : sink[k] = r

\* The value the run's stereo panner holds: the last one written, or the
\* default of a StereoPannerNode.
RECURSIVE PanOf(_)
PanOf(ops) ==
    IF ops = <<>> THEN 0
    ELSE IF ops[Len(ops)].op = "pan" THEN ops[Len(ops)].arg
    ELSE PanOf(SubSeq(ops, 1, Len(ops) - 1))

\* C6: when the speech-synthesis response carries no audio payload
\* (audioBase64 absent or empty), speakDescription calls playSpatial not at
\* all, starts no source and raises no error.
C6_NoPayloadNoPlayback ==
    \A r \in Runs :
        runs[r].payload \in {"absent", "empty"} =>
            /\ ~runs[r].psCalled
            /\ runs[r].graph = <<>>
            /\ runs[r].sound = "none"
            /\ runs[r].playbacks = 0
            /\ ~InSink(r)
            /\ runs[r].caught = "none"
            /\ ~LoggedAny(r)
            /\ runs[r].pc = "done"

C6_Witness ==
    \E r \in Runs :
        /\ runs[r].payload = "empty"
        /\ runs[r].pc = "done"
        /\ ~runs[r].psCalled
        /\ statusEl = "Analysis complete."

\* C7: when the audio payload cannot be decoded (atob or decodeAudioData
\* fails), no playback is started, and the failure reaches the caller of the
\* playback step as an error value: playSpatial's promise is rejected,
\* speakDescription's catch receives the error and writes it to the console.
C7_DecodeFailureReported ==
    \A r \in Runs :
        runs[r].payload \in {"badbase64", "undecodable"} =>
            /\ Starts(runs[r].graph) = 0
            /\ runs[r].sound = "none"
            /\ runs[r].playbacks = 0
            /\ ~InSink(r)
            /\ runs[r].pc \in {"decode", "done"}
            /\ runs[r].pc = "done" =>
                  /\ runs[r].caught # "none"
                  /\ Logged(r, runs[r].caught)
                  /\ runs[r].payload = "undecodable" =>
                        /\ runs[r].psResult = "rejected"
                        /\ runs[r].caught = "EncodingError"

C7_Witness ==
    \E r \in Runs :
        /\ runs[r].payload = "undecodable"
        /\ runs[r].pc = "done"
        /\ runs[r].psResult = "rejected"
        /\ Logged(r, "EncodingError")
        /\ statusEl = "Analysis complete."

\* C8: in every playback the stereo panner is set to the pan value derived
\* from the description before the source is started, and no write to the
\* panner follows the start.
C8_PanSetBeforeStart ==
    \A r \in Runs :
        LET g == runs[r].graph
        IN  \A i \in 1..Len(g) :
                g[i].op = "start" =>
                    /\ \E j \in 1..(i - 1) :
                          /\ g[j].op = "pan"
                          /\ g[j].arg = extractPan(runs[r].text)
                    /\ \A j \in (i + 1)..Len(g) : g[j].op # "pan"

C8_Witness ==
    \E r \in Runs :
        /\ runs[r].sound = "playing"
        /\ Len(runs[r].graph) = 2
        /\ runs[r].graph[1] = [op |-> "pan", arg |-> -6]
        /\ runs[r].graph[2].op = "start"

\* C9: the pan applied to a run's playback is extractPan of that run's own
\* description, whatever other runs completed before it or interleave with it.
C9_RunSelfContained ==
    \A r \in Runs :
        runs[r].sound # "none" => PanOf(runs[r].graph) = extractPan(runs[r].text)

\* Two overlapping runs with different descriptions; the first to be
\* clicked starts its playback last, when the page shows the other's text.
C9_Witness ==
    /\ sink = <<2, 1>>
    /\ runs[1].text = P3
    /\ runs[2].text = P9
    /\ descriptionEl = P9
    /\ PanOf(runs[1].graph) = 6
    /\ PanOf(runs[2].graph) = -6

\* C10: a completed run of analyzeScene has initiated at most one playback.
C10_AtMostOnePlayback ==
    \A r \in Runs : runs[r].pc = "done" => runs[r].playbacks <= 1

C10_Witness ==
    \E r \in Runs :
        /\ runs[r].pc = "done"
        /\ runs[r].playbacks = 1
        /\ InSink(r)
        /\ statusEl = "Analysis complete."

\* Where in the sink run r's playback stands.
SinkPos(r) == CHOOSE k \in 1..Len(sink) : sink[k] = r

C12_ReturnsWhileSounding ==
    \A r \in Runs :
        /\ runs[r].sound = "playing" =>
              /\ runs[r].psResult = "resolved"
              /\ runs[r].pc = "done"
        /\ runs[r].psResult = "pending" => runs[r].sound = "none"

\* The first run's clip still sounds while analyzeScene has returned and the
\* page has taken the next click.
C12_Witness ==
    /\ runs[1].sound = "playing"
    /\ runs[1].pc = "done"
    /\ runs[1].psResult = "resolved"
    /\ runs[2].pc = "analyze"

C14_Fifo ==
    \A a, b \in Runs :
        (InSink(a) /\ InSink(b) /\ runs[a].psSeq < runs[b].psSeq)
            => SinkPos(a) < SinkPos(b)

\* C14 amended: playbacks reach the sink in the order in which their decoding
\* completes, whichever was invoked first.
C14_DecodeOrder ==
    \A a, b \in Runs :
        (InSink(a) /\ InSink(b))
            => (SinkPos(a) < SinkPos(b) <=> runs[a].decSeq < runs[b].decSeq)

\* The invocation made second decodes first and sounds first.
C14_Witness ==
    /\ Len(sink) = 2
    /\ runs[sink[1]].psSeq = 2
    /\ runs[sink[2]].psSeq = 1
    /\ runs[sink[1]].decSeq < runs[sink[2]].decSeq

\* The digits that stand directly before position i + 1 of text, as far as
\* they reach to the left: the numeric token that ends at position i.
RECURSIVE NumberEndingAt(_, _)
NumberEndingAt(text, i) ==
    IF i >= 1 /\ text[i] \in {"0", "1", "2", "3", "4", "8", "9"}
    THEN Append(NumberEndingAt(text, i - 1), text[i])
    ELSE <<>>

\* Where text mentions a clock position: the places of " o'clock", in any
\* letter case.
ClockMentions(text) ==
    {i \in 1..Len(text) : OccursAt(text, i, <<" ", "o", "'", "c", "l", "o", "c", "k">>)}

RangeNumbers == {<<"2">>, <<"3">>, <<"4">>, <<"8">>, <<"9">>, <<"1", "0">>}

IsProviderRequest(q) ==
    /\ requests[q].pc # "free"
    /\ requests[q].input.method = "POST"
    /\ requests[q].input.url \in Endpoints

\* The handler of request q has run to its end: it answered, or it threw.
Handled(q) == requests[q].pc \in {"answered", "lost"}

C17_ErrorsAnswered ==
    /\ ~crashed
    /\ \A q \in Reqs :
           requests[q].failure \in {"malformed", "network"}
               => /\ requests[q].pc = "answered"
                  /\ requests[q].status = 500
                  /\ requests[q].reply = "error"

\* The body carries no value for the required field: there is no body, the
\* body is null, or it is an object without the field or with "" for it.
FieldAbsent(b) == b \in {"none", "null", "missing", "empty"}

\* C19: a POST on an endpoint whose required field is missing or empty is
\* answered with status 400 and an error message, and no call of the
\* provider is made for it.
C19_MissingFieldRejected ==
    \A q \in Reqs :
        (IsProviderRequest(q) /\ FieldAbsent(requests[q].input.body))
            => /\ requests[q].calls = 0
               /\ Handled(q) => /\ requests[q].pc = "answered"
                                /\ requests[q].status = 400
                                /\ requests[q].reply = "error"

\* The recordings whose MediaRecorder is in state recording.
Recording == {s \in Recs : recordings[s].pc = "recording"}

\* C20: at most one MediaRecorder is recording at any time, whatever the
\* start and stop clicks, also when the start button is clicked again while
\* the first call of startRecording still awaits the microphone.
C20_OneRecorder ==
    Cardinality(Recording) <= 1

\* The recordings whose onstop has made its blob, the audio that is then
\* converted and posted to /api/transcribe.
Submitted == {s \in Recs : recordings[s].pc \in {"converting", "transcribing", "done"}}

\* C21: the audio submitted for transcription after a recording stops is
\* made of exactly the chunks of that recording's own recorder, also when a
\* new recording starts before the stopped recorder's callbacks have run.
C21_OwnChunks ==
    \A s \in Submitted : recordings[s].blob = recordings[s].produced

\* The analysis started last: the runs take their numbers in the order of
\* the clicks.
Latest == Cardinality(Begun)

\* Every analysis begun has run to its end after receiving a description.
AllDescribed ==
    \A r \in Begun : runs[r].pc = "done" /\ runs[r].text # <<>>

\* C22: after analyze was clicked more than once, with the earlier analysis
\* still in flight or not, once all responses have arrived the description
\* shown is the one of the analysis started last, and so is the playback
\* started last, whatever the order the responses came in.
C22_LatestWins ==
    (Latest >= 2 /\ AllDescribed)
        => /\ descriptionEl = runs[Latest].text
           /\ InSink(Latest) => sink[Len(sink)] = Latest

\* C23: when analyzeScene finishes, after a response or after a failed
\* request, the status line no longer reads "Analyzing scene...".
C23_StatusLeft ==
    [][\A r \in Runs :
           (runs[r].pc # "done" /\ runs'[r].pc = "done")
               => statusEl' # "Analyzing scene..."]_vars

\* The script has written analyzeBtn.disabled: captureFrame has run with a
\* live camera, or an onstop has run to its last line.
ScriptSetButton ==
    \/ lastImageBase64 # Null
    \/ \E s \in Recs : recordings[s].pc = "done"

\* C24: in every state, when the script has enabled the analyze button both
\* a recorded audio and a captured frame exist, neither empty; and no
\* request to /api/analyze has been sent without a captured frame.
C24_EnabledMeansReady ==
    /\ (ScriptSetButton /\ ~analyzeBtnDisabled)
           => (lastAudioBase64 # Null /\ lastImageBase64 # Null)
    /\ Begun # {} => lastImageBase64 # Null

\* A POST on one of the three endpoints with a value for its required field.
IsValidRequest(q) ==
    IsProviderRequest(q) /\ requests[q].input.body = "value"

\* C25: with no API key no handler calls the provider: no request has a call
\* made for it, every valid request on the three endpoints that is handled
\* is answered 200 with the mock payload, and the mock payload of /api/tts,
\* whose audioBase64 is empty, is one the page skips playback for.
C25_MockWithoutKey ==
    openAiKey = Null
        => /\ \A q \in Reqs : requests[q].calls = 0
           /\ \A q \in Reqs :
                  (IsValidRequest(q) /\ Handled(q))
                      => /\ requests[q].pc = "answered"
                         /\ requests[q].status = 200
                         /\ requests[q].reply = "mock"
           /\ ~HasPayload(MockTtsPayload)

\* No key; a valid /api/tts request and a valid /api/analyze request, both
\* answered with their mock payloads.
C25_Witness ==
    /\ openAiKey = Null
    /\ \E p, q \in Reqs :
           /\ IsValidRequest(p) /\ requests[p].input.url = "/api/tts"
           /\ IsValidRequest(q) /\ requests[q].input.url = "/api/analyze"
           /\ requests[p].reply = "mock" /\ requests[q].reply = "mock"
           /\ requests[p].calls = 0 /\ requests[q].calls = 0

\* The names on the way from the root directory to the file or directory p,
\* after "." and ".." have been followed.
Resolved(p) == Normalize(Split(p, {"/"}), 1, <<>>)

\* p lies inside the directory dir: the way to p leads through dir.
IsInside(p, dir) ==
    /\ Len(Resolved(p)) >= Len(Resolved(dir))
    /\ SubSeq(Resolved(p), 1, Len(Resolved(dir))) = Resolved(dir)

\* C26: the static file server reads no file outside the web root: for
\* every request target, the file it reads lies inside the web root
\* directory, or it answers 403 and reads nothing.
C26_ReadsInsideRoot ==
    \A k \in 1..Len(staticCalls) :
        \/ staticCalls[k].status = 403 /\ staticCalls[k].read = <<>>
        \/ staticCalls[k].read # <<>> /\ IsInside(staticCalls[k].read, webRoot)

\* A request for "/../wx/f", which aims at a directory beside the web root
\* whose name begins like the root's: the file read is /a/w/wx/f.
C26_Witness ==
    /\ staticUrl = <<"/", ".", ".", "/", "w", "x", "/", "f">>
    /\ Len(staticCalls) = 1
    /\ staticCalls[1].read = webRoot \o <<"/", "w", "x", "/", "f">>
    /\ staticCalls[1].status # 403

====
